---- MODULE Spec2Model ----
(***************************************************************************)
(* Photon accounting of imaging_diffusion: the spatial histogram           *)
(* (src/photons/mod.rs) and the h5 photon list (src/photons/list.rs),      *)
(* driven by the dispatch loop of src/main.rs.                             *)
(*                                                                         *)
(* Lengths are integers in a fixed unit and position / cell_size is the    *)
(* exact quotient.  Scattered-photon values are fixed-point integers in    *)
(* units of 1/ScatterDen photon.                                           *)
(***************************************************************************)
EXTENDS Integers, Sequences, FiniteSets, TLC

VARIABLES
    cell_size,      \* PhotonHistogram.cell_size
    cell_number,    \* PhotonHistogram.cell_number
    cells,          \* PhotonHistogram.cells: flat index -> u32
    world,          \* specs World: entity -> its components
    step,           \* iterations of main's loop completed
    todo,           \* entities par_join has not handed to a worker yet
    wpc,            \* worker thread -> position in the closure
    went,           \* worker thread -> entity it is processing
    rem,            \* worker thread -> iterations left of `for _ in 0..number`
    lists,          \* entity -> the Vec<PhotonEmission> its closure returned
    batch,          \* the collected Vec<PhotonEmission> of this step
    pcH,            \* PhotonHistogramSystem::run position
    pcP,            \* RegisterPhotonsSystem::run position
    pcA,            \* RegisterInitialAtomsSystem::run position
    abatch,         \* the collected Vec<InitialAtomPositionRecord> of this step
    photons,        \* dataset "photons" of the h5 file
    atoms,          \* dataset "atoms" of the h5 file (NoDataset until created)
    aborted,        \* the process panicked
    file,           \* the file write_to_file is given: None, or Some(its bytes)
    writer,         \* the bytes the BufWriter of write_to_file holds back
    pcW,            \* PhotonHistogram::write_to_file position
    vi,             \* write_to_file: cells written by its loop so far
    pcS,            \* the simulation systems that compute this step's totals
    old_len,        \* append_photons: its local old_length
    hist,           \* history: what the calls made so far were given and did
    arg,            \* last input given to the function under test
    ret             \* its result

vars == <<cell_size, cell_number, cells, world, step, todo, wpc, went, rem,
          lists, batch, pcH, pcP, pcA, abatch, photons, atoms, aborted, file, writer,
          pcW, vi, pcS, old_len, hist, arg, ret>>

histVars == <<cell_size, cell_number, cells>>
workerVars == <<todo, wpc, went, rem, lists, batch>>
storeVars == <<pcH, pcP, pcA, abatch, photons, atoms, aborted>>
fileVars == <<file, writer, pcW, vi>>
runVars == <<pcS, old_len>>

-----------------------------------------------------------------------------
(* Bounds of the model *)

MaxCellNumber == 3      \* cell_number ranges over 1..MaxCellNumber
MaxCoord == 4           \* coordinates range over -MaxCoord..MaxCoord
MaxSows == 3            \* entities sown one after the other (SpecSat)
NumThreads == 2         \* rayon worker threads
NumEntities == 2        \* entity slots of the world
MaxBatch == 2           \* photons in one batch given to append_photons (SpecAppend)
MaxAppends == 2         \* append_photons calls per behaviour (SpecAppend)
HistSteps == 1          \* dispatches of the histogram pipeline (SpecHist)
MaxSteps == 2           \* iterations of main's loop (SpecStore)
MaxScatter == 6         \* channel values range over -MaxScatter..MaxScatter (fixed point)
ScatterDen == 4         \* a scattered value v stands for v / ScatterDen photons
MaxChannels == 2         \* emission channels of an entity (SpecNumber)
CellUnits == 2          \* length units per cell: domain_size = cell_number * CellUnits
BufCapacity == 4        \* bytes the BufWriter holds (8192 in std; scaled down)

(* Program constants *)

U16 == 65536            \* a u32 is kept as two 16-bit halves [hi, lo]
I32_MAX == 2147483647   \* the largest i32

\* Option<T>: None is the empty tuple, Some(v) the one-element tuple.
None == <<>>
Some(v) == <<v>>
unwrap(o) == o[1]

\* a dataset of the h5 file that has not been created
NoDataset == [exists |-> FALSE, data |-> <<>>]
NoEntity == 0

Threads == 1..NumThreads
Entities == 1..NumEntities
Coords == (-MaxCoord)..MaxCoord
Vector3 == Coords \X Coords \X Coords

-----------------------------------------------------------------------------
(* u32 arithmetic of AtomicU32, on [hi, lo] halves *)

U32(n) == [hi |-> n \div U16, lo |-> n % U16]
U32_MAX == [hi |-> U16 - 1, lo |-> U16 - 1]

wrapping_add(a, b) ==
    LET s == a.lo + b.lo
    IN [hi |-> (a.hi + b.hi + (s \div U16)) % U16, lo |-> s % U16]

\* AtomicU32::fetch_add(val, SeqCst) on cells[index]: one atomic step.
fetch_add_store(c, index, val) == [c EXCEPT ![index] = val]

fetch_add(c, index, val) == [c EXCEPT ![index] = wrapping_add(@, val)]

\* `f as i32` for a finite quotient num/den, den > 0: truncation toward zero.
as_i32(num, den) == IF num >= 0 THEN num \div den ELSE -((-num) \div den)

\* PhotonHistogram::new
new(domain_size, cn) ==
    [cell_size |-> domain_size \div cn,
     cell_number |-> cn,
     cells |-> [i \in 0..(cn * cn * cn - 1) |-> U32(0)]]

axis_index(p) == as_i32(p, cell_size) + cell_number \div 2

\* PhotonHistogram::get_index
get_index(position) ==
    LET x == axis_index(position[1])
        y == axis_index(position[2])
        z == axis_index(position[3])
    IN IF (x < 0 \/ x >= cell_number) \/ (y < 0 \/ y >= cell_number)
          \/ (z < 0 \/ z >= cell_number)
       THEN None
       ELSE Some(z * cell_number * cell_number + y * cell_number + x)

\* PhotonHistogram::count
count(position) ==
    LET index == get_index(position)
    IN IF index # None THEN fetch_add(cells, unwrap(index), U32(1)) ELSE cells

-----------------------------------------------------------------------------
(* The parts of the state a specification does not use *)

\* an entity slot of the world: alive, and the components it carries
\* (Atom, NewlyCreated, Position, Velocity, ActualPhotonsScatteredVector)
NoComponents ==
    [alive |-> FALSE, atom |-> FALSE, new |-> FALSE, pos |-> None, vel |-> None,
     totals |-> None]
NoWorld == [e \in Entities |-> NoComponents]

IdleWorkers ==
    /\ todo = {}
    /\ wpc = [t \in Threads |-> "idle"]
    /\ went = [t \in Threads |-> NoEntity]
    /\ rem = [t \in Threads |-> 0]
    /\ lists = [e \in Entities |-> <<>>]
    /\ batch = <<>>

\* write_to_file is not running and its file does not exist
NoFlush ==
    /\ file = None
    /\ writer = <<>>
    /\ pcW = "idle"
    /\ vi = 0

\* no step of main's loop is running
NoRun ==
    /\ pcS = "idle"
    /\ old_len = 0

NoStore ==
    /\ pcH = "idle"
    /\ pcP = "idle"
    /\ pcA = "idle"
    /\ abatch = <<>>
    /\ photons = <<>>
    /\ atoms = NoDataset
    /\ aborted = FALSE

-----------------------------------------------------------------------------
(* SpecCount: PhotonHistogram::count called on one histogram, one call at *)
(* a time, for every position of the bounded cube.                         *)

InitCount ==
    /\ \E cn \in 1..MaxCellNumber :
          LET h == new(cn * CellUnits, cn)
          IN /\ cell_size = h.cell_size
             /\ cell_number = h.cell_number
             /\ cells = h.cells
    /\ world = NoWorld
    /\ step = 0
    /\ IdleWorkers
    /\ NoFlush
    /\ NoRun
    /\ NoStore
    /\ hist = <<>>
    /\ arg = None
    /\ ret = None

\* one call histogram.count(position) on the new histogram
CountCall(position) ==
    /\ arg = None
    /\ cells' = count(position)
    /\ arg' = position
    /\ ret' = get_index(position)
    /\ UNCHANGED <<fileVars, runVars, cell_size, cell_number, world, step, workerVars,
                   storeVars, hist>>

NextCount == \E position \in Vector3 : CountCall(position)

SpecCount == InitCount /\ [][NextCount]_vars

Zeros == [i \in DOMAIN cells |-> U32(0)]
domain_size == cell_size * cell_number

\* floor(num/den), den > 0
floor(num, den) == num \div den

\* the cell index the specification gives an axis: floor, then the offset
floor_index(p) == floor(p, cell_size) + cell_number \div 2
InGrid(i) == 0 <= i /\ i < cell_number
flat_index(x, y, z) == z * cell_number * cell_number + y * cell_number + x

\* C4: count maps each axis to floor(position[axis] / cell_size) + cell_number/2
\* and increments the cell at the flat index z*cell_number^2 + y*cell_number + x
\* of those three indices.
C4_FloorIndex ==
    arg # None =>
        LET x == floor_index(arg[1])
            y == floor_index(arg[2])
            z == floor_index(arg[3])
        IN /\ ret # None => ret = Some(flat_index(x, y, z))
           /\ (InGrid(x) /\ InGrid(y) /\ InGrid(z)) =>
                cells = [Zeros EXCEPT ![flat_index(x, y, z)] = U32(1)]

InDomain(c) == -domain_size <= 2 * c /\ 2 * c < domain_size

\* C5: count increments a cell if and only if every coordinate lies in
\* [-domain_size/2, domain_size/2); otherwise no counter changes.  Stated for
\* an even cell_number, where the grid of the specification's index formula
\* is centred on the origin.
C5_HalfOpenDomain ==
    (arg # None /\ cell_number % 2 = 0) =>
        ((cells # Zeros) <=> (InDomain(arg[1]) /\ InDomain(arg[2]) /\ InDomain(arg[3])))

-----------------------------------------------------------------------------
(* SpecSat: entities sown into one histogram one after the other by a     *)
(* single worker, with photon numbers up to the largest u32.               *)

\* the loop `for _ in 0..number { histogram.count(position) }` run to its end
\* by one thread: number increments of the cell of position.
sow(position, number) ==
    LET index == get_index(position)
    IN IF index # None THEN fetch_add(cells, unwrap(index), number) ELSE cells

SowNumbers == {U32(1), U32(2), [hi |-> U16 - 1, lo |-> U16 - 2], U32_MAX}
SowPositions == {<<c, 0, 0>> : c \in Coords}

Sow(position, number) ==
    /\ step < MaxSows
    /\ cells' = sow(position, number)
    /\ step' = step + 1
    /\ arg' = position
    /\ ret' = get_index(position)
    /\ UNCHANGED <<fileVars, runVars, cell_size, cell_number, world, workerVars,
                   storeVars, hist>>

NextSat == \E position \in SowPositions, number \in SowNumbers : Sow(position, number)

SpecSat == InitCount /\ [][NextSat]_vars

\* C6: a cell that holds the largest u32 stays there on a further count
\* (saturation), it does not wrap to zero.
C6_Saturates ==
    [][\A i \in DOMAIN cells : cells[i] = U32_MAX => cells'[i] = U32_MAX]_vars

-----------------------------------------------------------------------------
(* The number of photons an entity scattered this step *)

\* f64::round of v / ScatterDen: to the nearest integer, halves away from zero
round(v) ==
    IF v >= 0 THEN (2 * v + ScatterDen) \div (2 * ScatterDen)
    ELSE -((2 * (-v) + ScatterDen) \div (2 * ScatterDen))

\* `as u32` of an integral f64 within the u32 range: negatives become 0
as_u32(r) == IF r < 0 THEN 0 ELSE r

RECURSIVE sum(_)
sum(s) == IF s = <<>> THEN 0 ELSE Head(s) + sum(Tail(s))

\* total.contents.iter().map(|a| a.scattered.round() as u32).sum()
number(contents) == sum([k \in DOMAIN contents |-> as_u32(round(contents[k]))])

\* the entities (&totals, &positions).join() yields in world w
JoinedIn(w) == {e \in Entities : w[e].alive /\ w[e].totals # None /\ w[e].pos # None}
Joined == JoinedIn(world)

Idle == \A t \in Threads : wpc[t] = "idle"

-----------------------------------------------------------------------------
(* SpecHist: the histogram pipeline.  Each dispatch runs                   *)
(* PhotonHistogramSystem, whose par_join hands the entities to the worker  *)
(* threads; the threads' count calls interleave.                           *)

\* with cell_number = 1 the second position is outside the domain
HistPositions == {<<0, 0, 0>>, <<-CellUnits, 0, 0>>}
HistTotals == {<<0>>, <<ScatterDen, ScatterDen>>}

InitHist ==
    /\ \E cn \in {1, MaxCellNumber} :
          LET h == new(cn * CellUnits, cn)
          IN /\ cell_size = h.cell_size
             /\ cell_number = h.cell_number
             /\ cells = h.cells
             /\ hist = [i \in DOMAIN h.cells |-> 0]
    /\ world \in [Entities -> [alive : {TRUE}, atom : {TRUE}, new : {FALSE},
                               pos : {Some(p) : p \in HistPositions},
                               vel : {Some(<<0, 0, 0>>)},
                               totals : {Some(<<0>>)}]]
    /\ step = 0
    /\ IdleWorkers
    /\ NoFlush
    /\ NoRun
    /\ NoStore
    /\ arg = None
    /\ ret = None

\* dispatcher.dispatch: the simulation systems have produced this step's
\* scattered values, and PhotonHistogramSystem::run starts its par_join.
HistDispatch ==
    /\ pcH = "idle"
    /\ step < HistSteps
    /\ \E tot \in [Entities -> HistTotals] :
          world' = [e \in Entities |-> [world[e] EXCEPT !.totals = Some(tot[e])]]
    /\ todo' = JoinedIn(world')
    /\ pcH' = "par_join"
    /\ UNCHANGED <<fileVars, runVars, histVars, step, wpc, went, rem, lists, batch, pcP,
                   pcA, abatch, photons, atoms, aborted, hist, arg, ret>>

\* a worker thread enters the closure for one entity and computes number
HistTake(t) ==
    /\ pcH = "par_join"
    /\ wpc[t] = "idle"
    /\ \E e \in todo :
          /\ todo' = todo \ {e}
          /\ went' = [went EXCEPT ![t] = e]
          /\ rem' = [rem EXCEPT ![t] = number(unwrap(world[e].totals))]
    /\ wpc' = [wpc EXCEPT ![t] = "loop"]
    /\ UNCHANGED <<fileVars, runVars, histVars, world, step, lists, batch, storeVars,
                   hist, arg, ret>>

\* one iteration of the closure's loop: histogram.count(position.pos)
HistCount(t) ==
    /\ wpc[t] = "loop"
    /\ rem[t] > 0
    /\ LET position == unwrap(world[went[t]].pos)
           index == get_index(position)
       IN /\ cells' = count(position)
          /\ hist' = IF index = None THEN hist
                     ELSE [hist EXCEPT ![unwrap(index)] = @ + 1]
    /\ rem' = [rem EXCEPT ![t] = @ - 1]
    /\ UNCHANGED <<fileVars, runVars, cell_size, cell_number, world, step, todo, wpc,
                   went, lists, batch, storeVars, arg, ret>>

\* the closure returns
HistReturn(t) ==
    /\ wpc[t] = "loop"
    /\ rem[t] = 0
    /\ wpc' = [wpc EXCEPT ![t] = "idle"]
    /\ went' = [went EXCEPT ![t] = NoEntity]
    /\ UNCHANGED <<fileVars, runVars, histVars, world, step, todo, rem, lists, batch,
                   storeVars, hist, arg, ret>>

\* for_each returns once every entity has been processed; the step ends
HistJoin ==
    /\ pcH = "par_join"
    /\ todo = {}
    /\ Idle
    /\ pcH' = "idle"
    /\ step' = step + 1
    /\ UNCHANGED <<fileVars, runVars, histVars, world, workerVars, pcP, pcA, abatch,
                   photons, atoms, aborted, hist, arg, ret>>

NextHist ==
    \/ HistDispatch
    \/ \E t \in Threads : HistTake(t)
    \/ \E t \in Threads : HistCount(t)
    \/ \E t \in Threads : HistReturn(t)
    \/ HistJoin

SpecHist == InitHist /\ [][NextHist]_vars

\* C1: under every interleaving of the threads' count calls every cell holds
\* exactly the number of calls made so far whose position maps to it (hist
\* counts them): no increment is lost or doubled, none lands in another cell.
C1_NoLostUpdates == \A i \in DOMAIN cells : cells[i] = U32(hist[i])

\* two threads are both inside their loops, both have counted into the same
\* cell and one still has a call to make
C1_Witness ==
    \E t1, t2 \in Threads :
        /\ t1 # t2
        /\ wpc[t1] = "loop" /\ wpc[t2] = "loop"
        /\ get_index(unwrap(world[went[t1]].pos)) # None
        /\ get_index(unwrap(world[went[t1]].pos)) = get_index(unwrap(world[went[t2]].pos))
        /\ rem[t1] < number(unwrap(world[went[t1]].totals)) /\ rem[t1] > 0
        /\ rem[t2] < number(unwrap(world[went[t2]].totals))

-----------------------------------------------------------------------------
(* PhotonOutputter: the h5 file with its datasets "photons" and "atoms"   *)

\* what UnitSphere.sample returns: a unit vector.  No property checked here
\* reads the direction of a sampled photon, so one vector stands for all.
UnitSphere == {<<0, 0, 1>>}

\* the record of a dataset element that was allocated but never written
\* (the h5 fill value)
Fill == <<0, 0, 0, 0, 0, 0>>

\* PhotonRecord::new
PhotonRecord_new(p) ==
    <<p.position[1], p.position[2], p.position[3],
      p.direction[1], p.direction[2], p.direction[3]>>

\* InitialAtomPositionRecord::new
InitialAtomPositionRecord_new(p, v) == <<p[1], p[2], p[3], v[1], v[2], v[3]>>

\* PhotonOutputter::new: dataset "photons" is created with the extent
\* (1, None): one element now, unlimited later, no data written.
PhotonOutputter_new == [photons |-> <<Fill>>, atoms |-> NoDataset]

\* dataset.size()
size(ds) == Len(ds)

\* dataset.resize(new_length)
resize(ds, new_length) ==
    IF new_length >= Len(ds)
    THEN ds \o [k \in 1..(new_length - Len(ds)) |-> Fill]
    ELSE SubSeq(ds, 1, new_length)

\* dataset.write_slice(records, Unlimited{start, step: 1, block: 1})
write_slice_before(ds, records, start) ==
    [k \in 1..Len(ds) |->
        IF k >= start /\ k < start + Len(records) THEN records[k - start + 1] ELSE ds[k]]

write_slice(ds, records, start) ==
    [k \in 1..Len(ds) |->
        IF k > start /\ k <= start + Len(records) THEN records[k - start] ELSE ds[k]]

\* how the h5 calls of one operation end
IOOutcomes == {"ok", "resize_err", "write_err"}

\* append_photons, `dataset.resize(new_length).expect(...)`
append_resize(ds, new_length, io) ==
    IF io = "resize_err" THEN [photons |-> ds, ok |-> FALSE]
    ELSE [photons |-> resize(ds, new_length), ok |-> TRUE]

\* append_photons, `dataset.write_slice(...).expect(...)`
append_write(ds, records, old_length, io) ==
    IF io = "write_err" THEN [photons |-> ds, ok |-> FALSE]
    ELSE [photons |-> write_slice(ds, records, old_length), ok |-> TRUE]

\* PhotonOutputter::append_photons; io says which h5 call, if any, fails.
\* ok = FALSE is the panic of the failing call's expect.
append_photons(ds, photons_vec, io) ==
    LET n == Len(photons_vec)
        records == [k \in 1..n |-> PhotonRecord_new(photons_vec[k])]
        old_length == size(ds)
        new_length == old_length + n
        resized == append_resize(ds, new_length, io)
    IN IF ~resized.ok THEN resized
       ELSE append_write(resized.photons, records, old_length, io)

write_initial_atom_positions_overwrite(ds, records, io) ==
    IF io # "ok" THEN [atoms |-> ds, ok |-> FALSE]
    ELSE [atoms |-> [exists |-> TRUE, data |-> records], ok |-> TRUE]

\* PhotonOutputter::write_initial_atom_positions: create("atoms") fails when
\* the file already has a dataset of that name, or on an I/O error.
write_initial_atom_positions(ds, records, io) ==
    IF ds.exists \/ io # "ok" THEN [atoms |-> ds, ok |-> FALSE]
    ELSE [atoms |-> [exists |-> TRUE, data |-> records], ok |-> TRUE]

\* flatten().collect(): the lists, one behind the other
RECURSIVE flatten(_)
flatten(ss) == IF ss = <<>> THEN <<>> ELSE Head(ss) \o flatten(Tail(ss))

-----------------------------------------------------------------------------
(* SpecAppend: append_photons called on a new PhotonOutputter with any     *)
(* batches of up to MaxBatch photons; hist logs the batches given.         *)

AppendEmissions ==
    {[position |-> <<1, 0, 0>>, direction |-> <<0, 0, 1>>],
     [position |-> <<0, 2, 0>>, direction |-> <<-1, 0, 0>>]}

Batches == UNION {[1..n -> AppendEmissions] : n \in 0..MaxBatch}

InitAppend ==
    /\ cell_size = CellUnits
    /\ cell_number = 1
    /\ cells = new(CellUnits, 1).cells
    /\ world = NoWorld
    /\ step = 0
    /\ IdleWorkers
    /\ NoFlush
    /\ NoRun
    /\ pcH = "idle" /\ pcP = "idle" /\ pcA = "idle"
    /\ abatch = <<>>
    /\ photons = PhotonOutputter_new.photons
    /\ atoms = PhotonOutputter_new.atoms
    /\ aborted = FALSE
    /\ hist = <<>>
    /\ arg = None
    /\ ret = None

\* one call output.append_photons(photons_vec)
AppendCall(photons_vec, io) ==
    /\ ~aborted
    /\ step < MaxAppends
    /\ LET r == append_photons(photons, photons_vec, io)
       IN /\ photons' = r.photons
          /\ aborted' = ~r.ok
          /\ ret' = Some(r.ok)
    /\ arg' = Some(photons_vec)
    /\ hist' = Append(hist, photons_vec)
    /\ step' = step + 1
    /\ UNCHANGED <<fileVars, runVars, histVars, world, workerVars, pcH, pcP, pcA,
                   abatch, atoms>>

NextAppend == \E photons_vec \in Batches, io \in IOOutcomes : AppendCall(photons_vec, io)

SpecAppend == InitAppend /\ [][NextAppend]_vars

\* C2: after append_photons calls with batches of sizes s1..sk on a new
\* PhotonOutputter the dataset "photons" holds exactly s1+...+sk records.
C2_LengthIsSum ==
    (~aborted /\ hist # <<>>) => Len(photons) = sum([k \in DOMAIN hist |-> Len(hist[k])])

\* C3: an append never changes or removes a record that is already in the
\* dataset, and a successful append puts its batch's records, in order,
\* right behind them (so batch N's records precede batch N+1's).
C3_AppendOnly ==
    [][/\ Len(photons') >= Len(photons)
       /\ SubSeq(photons', 1, Len(photons)) = photons
       /\ ret' = Some(TRUE) =>
            photons' = photons \o [k \in DOMAIN unwrap(arg') |->
                                      PhotonRecord_new(unwrap(arg')[k])]]_vars

\* two non-empty batches were appended one after the other
C3_Witness ==
    /\ ~aborted
    /\ Len(hist) >= 2
    /\ hist[1] # <<>> /\ hist[2] # <<>>
    /\ hist[1] # hist[2]

-----------------------------------------------------------------------------
(* SpecNumber: the photon number of one entity, for any channel values     *)

ScatterValues == (-MaxScatter)..MaxScatter
Contents == UNION {[1..n -> ScatterValues] : n \in 1..MaxChannels}

InitNumber ==
    /\ cell_size = CellUnits
    /\ cell_number = 1
    /\ cells = new(CellUnits, 1).cells
    /\ world = NoWorld
    /\ step = 0
    /\ IdleWorkers
    /\ NoFlush
    /\ NoRun
    /\ NoStore
    /\ hist = <<>>
    /\ arg \in {Some(c) : c \in Contents}
    /\ ret = None

\* let number = total.contents.iter().map(|a| a.scattered.round() as u32).sum();
ComputeNumber ==
    /\ ret = None
    /\ ret' = Some(number(unwrap(arg)))
    /\ UNCHANGED <<fileVars, runVars, histVars, world, step, workerVars, storeVars,
                   hist, arg>>

NextNumber == ComputeNumber

SpecNumber == InitNumber /\ [][NextNumber]_vars

\* C10: the scatter count is the sum of the channel values, rounded to the
\* nearest non-negative integer (sum first, then round); stated here for the
\* non-negative channel values the simulation produces.
C10_SumThenRound ==
    (ret # None /\ \A k \in DOMAIN unwrap(arg) : unwrap(arg)[k] >= 0) =>
        unwrap(ret) = as_u32(round(sum(unwrap(arg))))

-----------------------------------------------------------------------------
(* SpecStore: the photon-list pipeline of main.  Every dispatch runs the   *)
(* simulation systems, RegisterPhotonsSystem and                           *)
(* RegisterInitialAtomsSystem (main declares no dependency for the two, so *)
(* their steps interleave); world.maintain ends the step.                  *)
(* hist[e] counts the records written to dataset "atoms" for entity e.     *)

\* the atoms sit at two positions, so some share a position
StorePosition(e) == <<e % 2, 0, 0>>
StoreVelocity == <<0, 0, 1>>
\* channel values giving the numbers 0 and 2
StoreTotals == {<<0>>, <<ScatterDen, ScatterDen>>}

\* an atom as load_atoms_from_h5 builds it
NewAtom(e) ==
    [alive |-> TRUE, atom |-> TRUE, new |-> TRUE, pos |-> Some(StorePosition(e)),
     vel |-> Some(StoreVelocity), totals |-> None]

InitStore ==
    /\ cell_size = CellUnits
    /\ cell_number = 1
    /\ cells = new(CellUnits, 1).cells
    /\ \E n \in 0..NumEntities :
          world = [e \in Entities |-> IF e <= n THEN NewAtom(e) ELSE NoComponents]
    /\ step = 0
    /\ IdleWorkers
    /\ NoFlush
    /\ NoRun
    /\ pcH = "idle" /\ pcP = "idle" /\ pcA = "idle"
    /\ abatch = <<>>
    /\ photons = PhotonOutputter_new.photons
    /\ atoms = PhotonOutputter_new.atoms
    /\ aborted = FALSE
    /\ hist = [e \in Entities |-> 0]
    /\ arg = None
    /\ ret = None

Quiescent == pcP = "idle" /\ pcA = "idle" /\ ~aborted /\ step < MaxSteps

\* an atom is created between two steps (World::create_entity ... build)
CreateAtom(e) ==
    /\ Quiescent
    /\ ~world[e].alive
    /\ \A f \in Entities : f < e => world[f].alive
    /\ world' = [world EXCEPT ![e] = NewAtom(e)]
    /\ UNCHANGED <<fileVars, runVars, histVars, step, workerVars, storeVars, hist, arg,
                   ret>>

\* dispatcher.dispatch: the systems of this step are started.  They are
\* the simulation systems of create_simulation_dispatcher_builder, which
\* compute this step's scattered values, and the two output systems main
\* adds with no dependency (&[]).
StoreDispatch ==
    /\ Quiescent
    /\ todo' = {}
    /\ lists' = [e \in Entities |-> <<>>]
    /\ batch' = <<>>
    /\ abatch' = <<>>
    /\ pcS' = "todo"
    /\ pcP' = "ready"
    /\ pcA' = "par_join"
    /\ UNCHANGED <<fileVars, histVars, world, step, wpc, went, rem, pcH, photons, atoms,
                   aborted, old_len, hist, arg, ret>>

\* the simulation systems leave this step's scattered values on the entities
\* that carry the component.  They write the storage RegisterPhotonsSystem
\* reads, so the dispatcher never runs them while that system runs; which of
\* them runs first is for the dispatcher to choose.
ScatterTotals ==
    /\ pcS = "todo"
    /\ pcP \in {"ready", "done"}
    /\ ~aborted
    /\ \E tot \in [Entities -> {None} \cup {Some(c) : c \in StoreTotals}] :
          world' = [e \in Entities |->
                      IF world[e].alive THEN [world[e] EXCEPT !.totals = tot[e]]
                      ELSE world[e]]
    /\ pcS' = "done"
    /\ UNCHANGED <<fileVars, histVars, step, workerVars, pcH, pcP, pcA, abatch, photons,
                   atoms, aborted, old_len, hist, arg, ret>>

\* RegisterPhotonsSystem::run starts: (&totals, &positions).par_join()
PhotonsStart ==
    /\ pcP = "ready"
    /\ ~aborted
    /\ todo' = Joined
    /\ pcP' = "par_join"
    /\ UNCHANGED <<fileVars, runVars, histVars, world, step, wpc, went, rem, lists,
                   batch, pcH, pcA, abatch, photons, atoms, aborted, hist, arg, ret>>

\* the list the closure of RegisterPhotonsSystem builds for one entity:
\* one PhotonEmission per sampled direction, at the entity's position
emissions_but_one(position, directions) ==
    [k \in 1..(Len(directions) - 1) |-> [position |-> position, direction |-> directions[k]]]

emissions(position, directions) ==
    [k \in DOMAIN directions |-> [position |-> position, direction |-> directions[k]]]

\* the closure of RegisterPhotonsSystem::run for entity e, on any worker
\* thread: it only reads e's components and builds its own list.
PhotonsClosure(e) ==
    /\ pcP = "par_join"
    /\ ~aborted
    /\ e \in todo
    /\ \E directions \in [1..number(unwrap(world[e].totals)) -> UnitSphere] :
          lists' = [lists EXCEPT ![e] = emissions(unwrap(world[e].pos), directions)]
    /\ todo' = todo \ {e}
    /\ UNCHANGED <<fileVars, runVars, histVars, world, step, wpc, went, rem, batch,
                   storeVars, hist, arg, ret>>

\* flatten().collect() once every closure has returned
PhotonsCollect ==
    /\ pcP = "par_join"
    /\ ~aborted
    /\ todo = {}
    /\ batch' = flatten(lists)
    /\ pcP' = "append"
    /\ UNCHANGED <<fileVars, runVars, histVars, world, step, todo, wpc, went, rem,
                   lists, pcH, pcA, abatch, photons, atoms, aborted, hist, arg, ret>>

\* output.append_photons(photons), up to dataset.resize(new_length)
PhotonsResize(io) ==
    /\ pcP = "append"
    /\ ~aborted
    /\ old_len' = size(photons)
    /\ LET r == append_resize(photons, size(photons) + Len(batch), io)
       IN /\ photons' = r.photons
          /\ aborted' = ~r.ok
          /\ pcP' = IF r.ok THEN "write" ELSE "done"
    /\ UNCHANGED <<fileVars, histVars, world, step, workerVars, pcH, pcA, abatch, atoms,
                   pcS, hist, arg, ret>>

\* output.append_photons(photons), dataset.write_slice at old_length
PhotonsWrite(io) ==
    /\ pcP = "write"
    /\ ~aborted
    /\ LET records == [k \in DOMAIN batch |-> PhotonRecord_new(batch[k])]
           r == append_write(photons, records, old_len, io)
       IN /\ photons' = r.photons
          /\ aborted' = ~r.ok
    /\ pcP' = "done"
    /\ UNCHANGED <<fileVars, runVars, histVars, world, step, workerVars, pcH, pcA,
                   abatch, atoms, hist, arg, ret>>

AllAtoms ==
    {e \in Entities : /\ world[e].alive /\ world[e].atom
                      /\ world[e].pos # None /\ world[e].vel # None}

\* the entities (&atoms, &new, &positions, &velocities).join() yields
NewAtoms ==
    {e \in Entities : /\ world[e].alive /\ world[e].atom /\ world[e].new
                      /\ world[e].pos # None /\ world[e].vel # None}

RECURSIVE records_of(_)
records_of(S) ==
    IF S = {} THEN <<>>
    ELSE LET e == CHOOSE x \in S : \A y \in S : x <= y
         IN <<InitialAtomPositionRecord_new(unwrap(world[e].pos), unwrap(world[e].vel))>>
            \o records_of(S \ {e})

\* RegisterInitialAtomsSystem::run, the par_join().map().collect()
AtomsCollect ==
    /\ pcA = "par_join"
    /\ ~aborted
    /\ abatch' = records_of(NewAtoms)
    /\ pcA' = "write"
    /\ UNCHANGED <<fileVars, runVars, histVars, world, step, workerVars, pcH, pcP,
                   photons, atoms, aborted, hist, arg, ret>>

\* RegisterInitialAtomsSystem::run, `if atoms.len() > 0 { write... }`
AtomsWrite(io) ==
    /\ pcA = "write"
    /\ ~aborted
    /\ IF Len(abatch) > 0
       THEN LET r == write_initial_atom_positions(atoms, abatch, io)
            IN /\ atoms' = r.atoms
               /\ aborted' = ~r.ok
               /\ hist' = [e \in Entities |->
                             IF r.ok /\ e \in NewAtoms THEN hist[e] + 1 ELSE hist[e]]
               /\ arg' = Some(io)
               /\ ret' = Some(r.ok)
       ELSE UNCHANGED <<atoms, aborted, hist, arg, ret>>
    /\ pcA' = "done"
    /\ UNCHANGED <<fileVars, runVars, histVars, world, step, workerVars, pcH, pcP,
                   abatch, photons>>

\* world.maintain(): the step ends, the NewlyCreated markers are removed
Maintain ==
    /\ pcS = "done"
    /\ pcP = "done"
    /\ pcA = "done"
    /\ ~aborted
    /\ world' = [e \in Entities |-> [world[e] EXCEPT !.new = FALSE]]
    /\ step' = step + 1
    /\ pcS' = "idle"
    /\ pcP' = "idle"
    /\ pcA' = "idle"
    /\ UNCHANGED <<fileVars, histVars, workerVars, pcH, abatch, photons, atoms, aborted,
                   old_len, hist, arg, ret>>

NextStore ==
    \/ \E e \in Entities : CreateAtom(e)
    \/ StoreDispatch
    \/ ScatterTotals
    \/ PhotonsStart
    \/ \E e \in Entities : PhotonsClosure(e)
    \/ PhotonsCollect
    \/ \E io \in IOOutcomes : PhotonsResize(io)
    \/ \E io \in IOOutcomes : PhotonsWrite(io)
    \/ AtomsCollect
    \/ \E io \in IOOutcomes : AtomsWrite(io)
    \/ Maintain

SpecStore == InitStore /\ [][NextStore]_vars

\* C7: dataset "atoms" is written once.  Once it exists no step changes it; a
\* further write of a non-empty batch panics; and the dataset is only ever
\* created by a write of a non-empty batch, which it then holds.
C7_OneShot ==
    [][/\ atoms.exists => atoms' = atoms
       /\ (atoms.exists /\ pcA = "write" /\ pcA' = "done" /\ abatch # <<>>) => aborted'
       /\ (pcA = "write" /\ pcA' = "done" /\ abatch = <<>>) =>
            (atoms' = atoms /\ aborted' = aborted)
       /\ (~atoms.exists /\ atoms'.exists) =>
            (abatch # <<>> /\ atoms'.data = abatch /\ pcA = "write")]_vars

\* a second non-empty batch was given to write_initial_atom_positions, with
\* no I/O error, and the run was aborted with the first table intact
C7_Witness ==
    /\ aborted
    /\ pcA = "done"
    /\ step >= 1
    /\ atoms.exists
    /\ abatch # <<>>
    /\ atoms.data # abatch
    /\ arg = Some("ok")
    /\ ret = Some(FALSE)

\* C8: every entity flagged newly created has its record written exactly once,
\* in the step in which it is first seen as newly created (here: when
\* RegisterInitialAtomsSystem has run in that step without an I/O error), also
\* when it was created in a later step than others, and never again.
C8_EachAtomOnce ==
    /\ \A e \in Entities : hist[e] <= 1
    /\ \A e \in Entities : (world[e].alive /\ ~world[e].new) => hist[e] = 1
    /\ (pcA = "done" /\ arg = Some("ok")) => \A e \in NewAtoms : hist[e] = 1

\* the events of a batch that sit at position p
EventsAt(b, p) == {k \in DOMAIN b : b[k].position = p}

\* C9: the batch handed to append_photons holds, for every entity carrying a
\* position and a scatter count n, exactly n events at that entity's position
\* and no other event.
C9_BatchComplete ==
    pcP = "append" =>
        /\ Len(batch) = sum([e \in Entities |->
                               IF e \in Joined THEN number(unwrap(world[e].totals)) ELSE 0])
        /\ \A e \in Entities :
              Cardinality(EventsAt(batch, StorePosition(e))) =
                  sum([f \in Entities |->
                         IF f \in Joined /\ unwrap(world[f].pos) = StorePosition(e)
                         THEN number(unwrap(world[f].totals)) ELSE 0])

\* a batch was collected from two entities with photons, at different
\* positions, while another entity or component was left out
C9_Witness ==
    /\ pcP = "append"
    /\ \E e, f \in Joined :
          /\ unwrap(world[e].pos) # unwrap(world[f].pos)
          /\ number(unwrap(world[e].totals)) = 2
          /\ number(unwrap(world[f].totals)) = 2
    /\ Len(batch) = 4

-----------------------------------------------------------------------------
(* SpecScatter: the photon number of one entity over the whole range of    *)
(* f64 channel values: not-a-number, negative, fractional, and beyond the  *)
(* u32 range.                                                              *)

\* an f64: not-a-number, or sign and magnitude hi * 2^16 + lo + frac / ScatterDen.
\* hi >= U16 stands for every magnitude of 2^32 and above (infinity included).
F64(neg, hi, lo, frac) == [nan |-> FALSE, neg |-> neg, hi |-> hi, lo |-> lo, frac |-> frac]
NaN == [nan |-> TRUE, neg |-> FALSE, hi |-> 0, lo |-> 0, frac |-> 0]

\* f64::round: to the nearest integer, halves away from zero; NaN stays NaN
round_f64(a) ==
    IF a.nan THEN a
    ELSE LET up == IF 2 * a.frac >= ScatterDen THEN 1 ELSE 0
             l == a.lo + up
         IN [nan |-> FALSE, neg |-> a.neg, hi |-> a.hi + (l \div U16), lo |-> l % U16,
             frac |-> 0]

\* `f as u32` of a rounded f64: the saturating cast.  NaN and negatives
\* give 0, values of 2^32 and above give u32::MAX.
as_u32_sat(r) ==
    IF r.nan \/ r.neg THEN U32(0)
    ELSE IF r.hi >= U16 THEN U32_MAX
    ELSE [hi |-> r.hi, lo |-> r.lo]

\* a + b of two u32 does not fit in a u32
overflows(a, b) == a.hi + b.hi + ((a.lo + b.lo) \div U16) >= U16

\* how the crate is built: with overflow checks (debug) the + of
\* Iterator::sum panics on overflow, without them (release) it wraps.
Builds == {"debug", "release"}

\* Iterator::sum over u32: fold(0, |a, b| a + b).  ok = FALSE is the panic
\* "attempt to add with overflow".
RECURSIVE sum_u32(_, _, _)
sum_u32(s, acc, build) ==
    IF s = <<>> THEN [value |-> acc, ok |-> TRUE]
    ELSE IF overflows(acc, Head(s)) /\ build = "debug" THEN [value |-> acc, ok |-> FALSE]
    ELSE sum_u32(Tail(s), wrapping_add(acc, Head(s)), build)

\* total.contents.iter().map(|a| a.scattered.round() as u32).sum()
number_u32(contents, build) ==
    sum_u32([k \in DOMAIN contents |-> as_u32_sat(round_f64(contents[k]))], U32(0), build)

\* magnitudes 0, 1/2, 1, 2^31, 2^32 - 1, 2^32 - 1/2 and "2^32 or more"
F64Values ==
    {NaN} \cup
    {F64(neg, m[1], m[2], m[3]) :
        neg \in BOOLEAN,
        m \in {<<0, 0, 0>>, <<0, 0, ScatterDen \div 2>>, <<0, 1, 0>>,
               <<U16 \div 2, 0, 0>>, <<U16 - 1, U16 - 1, 0>>,
               <<U16 - 1, U16 - 1, ScatterDen - 1>>, <<U16, 0, 0>>}}

ScatterContents == UNION {[1..n -> F64Values] : n \in 1..MaxChannels}

InitScatter ==
    /\ cell_size = CellUnits
    /\ cell_number = 1
    /\ cells = new(CellUnits, 1).cells
    /\ world = NoWorld
    /\ step = 0
    /\ IdleWorkers
    /\ NoFlush
    /\ NoRun
    /\ NoStore
    /\ hist = <<>>
    /\ arg \in {Some(c) : c \in ScatterContents}
    /\ ret = None

\* let number = total.contents.iter().map(|a| a.scattered.round() as u32).sum();
ScatterNumber(build) ==
    /\ ret = None
    /\ ~aborted
    /\ LET r == number_u32(unwrap(arg), build)
       IN /\ ret' = IF r.ok THEN Some(r.value) ELSE None
          /\ aborted' = ~r.ok
    /\ UNCHANGED <<fileVars, runVars, histVars, world, step, workerVars, pcH, pcP, pcA,
                   abatch, photons, atoms, hist, arg>>

NextScatter == \E build \in Builds : ScatterNumber(build)

SpecScatter == InitScatter /\ [][NextScatter]_vars

u32_le(a, b) == a.hi < b.hi \/ (a.hi = b.hi /\ a.lo <= b.lo)

\* C11: computing the photon number never panics, whatever the channel
\* values; channels that are negative or not a number count as zero events;
\* and the sum over the channels does not wrap: it is never below the count
\* of one of its channels.
C11_NoPanicNoWrap ==
    /\ ~aborted
    /\ ret # None =>
          LET c == unwrap(arg)
              n == unwrap(ret)
          IN /\ (\A k \in DOMAIN c : c[k].nan \/ c[k].neg) => n = U32(0)
             /\ \A k \in DOMAIN c : u32_le(as_u32_sat(round_f64(c[k])), n)

-----------------------------------------------------------------------------
(* SpecFlush: entities are sown into a histogram, then write_to_file       *)
(* writes it out.  hist[<<x, y, z>>] is the u32 count of the sows whose    *)
(* position fell into cell (x, y, z).                                      *)

\* bytes of the text
Comma == 44
Digit(n) == 48 + n

\* v / 10 and v % 10 of a u32
div10(v) ==
    LET t == (v.hi % 10) * U16 + v.lo
    IN [q |-> [hi |-> v.hi \div 10, lo |-> t \div 10], r |-> t % 10]

\* "{:?}" of a u32: its decimal digits, no sign, no leading zeros
RECURSIVE format_u32(_)
format_u32(v) ==
    IF v.hi = 0 /\ v.lo < 10 THEN <<Digit(v.lo)>>
    ELSE format_u32(div10(v).q) \o <<Digit(div10(v).r)>>

\* how an operation of the operating system on the file ends
IOResults == {"ok", "err"}

File_create_keep(f, io) ==
    IF io = "ok" THEN [file |-> IF f = None THEN Some(<<>>) ELSE f, ok |-> TRUE]
    ELSE [file |-> f, ok |-> FALSE]

\* File::create: creates the file, or truncates the one that is there
File_create(f, io) == IF io = "ok" THEN [file |-> Some(<<>>), ok |-> TRUE]
                      ELSE [file |-> f, ok |-> FALSE]

\* BufWriter::flush_buf: the held bytes go to the file
flush_buf(w, io) ==
    IF w.writer = <<>> THEN [file |-> w.file, writer |-> <<>>, ok |-> TRUE]
    ELSE IF io = "ok"
         THEN [file |-> Some(unwrap(w.file) \o w.writer), writer |-> <<>>, ok |-> TRUE]
         ELSE [file |-> w.file, writer |-> w.writer, ok |-> FALSE]

\* BufWriter::write_all: buf is held back when it fits in the spare capacity;
\* otherwise the held bytes are flushed, and a buf as large as the whole
\* capacity goes straight to the file.
write_all(w, buf, io) ==
    IF Len(buf) < BufCapacity - Len(w.writer)
    THEN [file |-> w.file, writer |-> w.writer \o buf, ok |-> TRUE]
    ELSE LET f == IF Len(buf) > BufCapacity - Len(w.writer) THEN flush_buf(w, io)
                  ELSE [file |-> w.file, writer |-> w.writer, ok |-> TRUE]
         IN IF ~f.ok THEN f
            ELSE IF Len(buf) >= BufCapacity
            THEN IF io = "ok"
                 THEN [file |-> Some(unwrap(f.file) \o buf), writer |-> f.writer,
                       ok |-> TRUE]
                 ELSE [file |-> f.file, writer |-> f.writer, ok |-> FALSE]
            ELSE [file |-> f.file, writer |-> f.writer \o buf, ok |-> TRUE]

\* write!(writer, "{:?},", v): the digits, then the comma
write_fmt(w, v, io) ==
    LET a == write_all(w, format_u32(v), io)
    IN IF ~a.ok THEN a ELSE write_all(a, <<Comma>>, io)

FlushPositions ==
    {<<-CellUnits, -CellUnits, -CellUnits>>, <<0, 0, 0>>, <<-CellUnits, 0, 0>>}
FlushNumbers == {U32(1), U32(3), [hi |-> U16 - 1, lo |-> U16 - 3]}
\* what the path holds before the call: nothing, or some older, longer output
OldFiles == {None, Some(<<Digit(7), Comma, Digit(7), Digit(7), Comma>>)}

Cells3 == (0..(cell_number - 1)) \X (0..(cell_number - 1)) \X (0..(cell_number - 1))

InitFlush ==
    /\ \E cn \in 1..MaxCellNumber :
          LET h == new(cn * CellUnits, cn)
          IN /\ cell_size = h.cell_size
             /\ cell_number = h.cell_number
             /\ cells = h.cells
             /\ hist = [c \in (0..(cn - 1)) \X (0..(cn - 1)) \X (0..(cn - 1)) |-> U32(0)]
    /\ world = NoWorld
    /\ step = 0
    /\ IdleWorkers
    /\ NoStore
    /\ file \in OldFiles
    /\ writer = <<>>
    /\ pcW = "idle"
    /\ vi = 0
    /\ NoRun
    /\ arg = None
    /\ ret = None

\* one entity of PhotonHistogramSystem::run: number counts of its position
FlushSow(position, num) ==
    /\ pcW = "idle"
    /\ step < MaxSows
    /\ cells' = sow(position, num)
    /\ LET c == <<axis_index(position[1]), axis_index(position[2]),
                  axis_index(position[3])>>
       IN hist' = IF c \in Cells3 THEN [hist EXCEPT ![c] = wrapping_add(@, num)]
                  ELSE hist
    /\ step' = step + 1
    /\ UNCHANGED <<cell_size, cell_number, world, workerVars, storeVars, fileVars,
                   runVars, arg, ret>>

\* write_to_file, File::create(&path) and BufWriter::new(file)
WriteCreate(io) ==
    /\ pcW = "idle"
    /\ LET r == File_create(file, io)
       IN /\ file' = r.file
          /\ aborted' = ~r.ok
          /\ pcW' = IF r.ok THEN "loop" ELSE "panic"
    /\ writer' = <<>>
    /\ vi' = 0
    /\ arg' = Some(file)
    /\ UNCHANGED <<histVars, world, step, workerVars, pcH, pcP, pcA, abatch, photons,
                   atoms, runVars, hist, ret>>

\* write_to_file, one iteration of `for v in self.cells.iter()`
WriteCell(io) ==
    /\ pcW = "loop"
    /\ vi < cell_number * cell_number * cell_number
    /\ LET r == write_fmt([file |-> file, writer |-> writer], cells[vi], io)
       IN /\ file' = r.file
          /\ writer' = r.writer
          /\ aborted' = ~r.ok
          /\ pcW' = IF r.ok THEN "loop" ELSE "panic"
    /\ vi' = vi + 1
    /\ UNCHANGED <<histVars, world, step, workerVars, pcH, pcP, pcA, abatch, photons,
                   atoms, runVars, hist, arg, ret>>

\* write_to_file returns: the BufWriter is dropped, and its drop flushes
\* the held bytes and ignores the result
WriteDrop(io) ==
    /\ pcW = "loop"
    /\ vi = cell_number * cell_number * cell_number
    /\ LET r == flush_buf([file |-> file, writer |-> writer], io)
       IN /\ file' = r.file
          /\ ret' = Some(r.ok)
    /\ writer' = <<>>
    /\ pcW' = "done"
    /\ UNCHANGED <<histVars, world, step, workerVars, storeVars, vi, runVars, hist, arg>>

NextFlush ==
    \/ \E position \in FlushPositions, num \in FlushNumbers : FlushSow(position, num)
    \/ \E io \in IOResults : WriteCreate(io)
    \/ \E io \in IOResults : WriteCell(io)
    \/ \E io \in IOResults : WriteDrop(io)

SpecFlush == InitFlush /\ [][NextFlush]_vars

\* reading the text back: the fields that end at each comma ...
RECURSIVE Fields(_)
Fields(t) ==
    IF \A k \in DOMAIN t : t[k] # Comma THEN <<>>
    ELSE LET k == CHOOSE i \in DOMAIN t : t[i] = Comma /\ \A j \in 1..(i - 1) : t[j] # Comma
         IN <<SubSeq(t, 1, k - 1)>> \o Fields(SubSeq(t, k + 1, Len(t)))

\* ... and the unsigned integer a field of decimal digits stands for
RECURSIVE parse_u32(_, _)
parse_u32(f, acc) ==
    IF f = <<>> THEN acc
    ELSE LET l == acc.lo * 10 + (Head(f) - Digit(0))
         IN parse_u32(Tail(f), [hi |-> acc.hi * 10 + (l \div U16), lo |-> l % U16])

IsNumber(f) == f # <<>> /\ \A k \in DOMAIN f : f[k] \in Digit(0)..Digit(9)

\* C12: after write_to_file (no I/O operation having failed) the file holds
\* exactly cell_number^3 unsigned integers, each followed by a comma and
\* nothing else, whatever the file held before; the value at position
\* z*cell_number^2 + y*cell_number + x is the counter of cell (x, y, z).
C12_FlushFormat ==
    (pcW = "done" /\ ret = Some(TRUE)) =>
        /\ file # None
        /\ LET text == unwrap(file)
               fields == Fields(text)
           IN /\ text # <<>> /\ text[Len(text)] = Comma
              /\ Len(fields) = cell_number * cell_number * cell_number
              /\ \A k \in DOMAIN fields : IsNumber(fields[k])
              /\ \A c \in Cells3 :
                    parse_u32(fields[c[3] * cell_number * cell_number
                                     + c[2] * cell_number + c[1] + 1], U32(0)) = hist[c]

\* the example: cell_number = 2, cell (0,0,0) counted three times and cell
\* (1,1,1) once, written over an older file: "3,0,0,0,0,0,0,1,"
C12_Witness ==
    /\ pcW = "done"
    /\ ret = Some(TRUE)
    /\ cell_number = 2
    /\ arg = Some(Some(<<Digit(7), Comma, Digit(7), Digit(7), Comma>>))
    /\ hist[<<0, 0, 0>>] = U32(3)
    /\ hist[<<1, 1, 1>>] = U32(1)
    /\ file = Some(<<Digit(3), Comma, Digit(0), Comma, Digit(0), Comma, Digit(0), Comma,
                     Digit(0), Comma, Digit(0), Comma, Digit(0), Comma, Digit(1), Comma>>)

\* C13: every I/O failure aborts the run; none is silently swallowed.  Here:
\* write_to_file never returns normally after one of its writes to the file
\* failed.
C13_NoSwallowedError ==
    (pcW = "done" /\ ret = Some(FALSE)) => aborted

-----------------------------------------------------------------------------
(* Monotonicity of the histogram and atomicity of an append *)

\* C15: histogram counts only grow: no step makes the counter of a cell
\* smaller than it was.
C15_CountsOnlyGrow ==
    [][\A i \in DOMAIN cells : u32_le(cells[i], cells'[i])]_vars

\* C18: append_photons extends and writes atomically: the dataset is never
\* left longer than before with the new tail not holding the batch's records,
\* also when the call fails.
C18_AtomicAppend ==
    [][Len(photons') > Len(photons) =>
          SubSeq(photons', Len(photons) + 1, Len(photons')) =
              [k \in DOMAIN unwrap(arg') |-> PhotonRecord_new(unwrap(arg')[k])]]_vars

-----------------------------------------------------------------------------
(* SpecAtoms: RegisterInitialAtomsSystem::run in a world whose entities    *)
(* carry any combination of Atom, NewlyCreated, Position and Velocity.     *)

InitAtoms ==
    /\ cell_size = CellUnits
    /\ cell_number = 1
    /\ cells = new(CellUnits, 1).cells
    /\ world \in [Entities -> [alive : {TRUE}, atom : BOOLEAN, new : BOOLEAN,
                               pos : {None}, vel : {None, Some(StoreVelocity)},
                               totals : {None}]
                              \cup
                              [alive : {TRUE}, atom : BOOLEAN, new : BOOLEAN,
                               pos : {Some(<<1, 0, 0>>), Some(<<0, 2, 0>>)},
                               vel : {None, Some(StoreVelocity)}, totals : {None}]]
    /\ step = 0
    /\ IdleWorkers
    /\ NoFlush
    /\ NoRun
    /\ pcH = "idle" /\ pcP = "idle" /\ pcA = "par_join"
    /\ abatch = <<>>
    /\ photons = PhotonOutputter_new.photons
    /\ atoms = PhotonOutputter_new.atoms
    /\ aborted = FALSE
    /\ hist = [e \in Entities |-> 0]
    /\ arg = None
    /\ ret = None

NextAtoms ==
    \/ AtomsCollect
    \/ \E io \in IOOutcomes : AtomsWrite(io)

SpecAtoms == InitAtoms /\ [][NextAtoms]_vars

\* the entities tagged newly created that carry a position and a velocity
Tagged ==
    {e \in Entities : /\ world[e].alive /\ world[e].new
                      /\ world[e].pos # None /\ world[e].vel # None}

\* the batch b holds one record, position then velocity, for every entity
\* of S and no other record
OneRecordEach(b, S) ==
    /\ Len(b) = Cardinality(S)
    /\ \A k \in DOMAIN b :
          Cardinality({j \in DOMAIN b : b[j] = b[k]}) =
              Cardinality({e \in S : unwrap(world[e].pos) \o unwrap(world[e].vel) = b[k]})

\* C17, as claimed: the batch of RegisterInitialAtomsSystem holds exactly one
\* record (position then velocity) for every entity tagged newly created that
\* carries a position and a velocity, and none for any other entity; no
\* further component is required.
C17_NewWithPosVel ==
    pcA = "write" => OneRecordEach(abatch, Tagged)

\* C17, amended: ... for every entity that is an Atom, is tagged newly
\* created and carries a position and a velocity, and none for any other.
C17_NewAtomsWithPosVel ==
    pcA = "write" => OneRecordEach(abatch, {e \in Tagged : world[e].atom})

\* a batch with a record was built while another entity, newly created with
\* position and velocity but not an Atom, was left out
C17_Witness ==
    /\ pcA = "write"
    /\ abatch # <<>>
    /\ \E e \in Tagged : ~world[e].atom

-----------------------------------------------------------------------------
(* SpecIndex: count called with any f64 coordinates: finite ones, those    *)
(* whose quotient by cell_size is beyond the i32 range, and not-a-number.  *)

I32_MIN == -I32_MAX - 1

\* a coordinate: a finite length v; "huge", of sign v, for every coordinate
\* whose quotient by cell_size is beyond the i32 range (infinity included);
\* or not-a-number
Fin(v) == [kind |-> "fin", v |-> v]
Huge(sign) == [kind |-> "huge", v |-> sign]
NaNCoord == [kind |-> "nan", v |-> 0]

\* `(p / self.cell_size) as i32`: the saturating cast of the quotient.
\* NaN gives 0; a quotient beyond the range gives i32::MAX or i32::MIN.
quotient_as_i32(p) ==
    IF p.kind = "nan" THEN 0
    ELSE IF p.kind = "huge" THEN (IF p.v > 0 THEN I32_MAX ELSE I32_MIN)
    ELSE as_i32(p.v, cell_size)

\* a + b in i32, for b >= 0.  On overflow a build with overflow checks
\* panics (ok = FALSE); one without wraps around.
add_i32(a, b, build) ==
    IF a > I32_MAX - b
    THEN IF build = "debug" THEN [value |-> 0, ok |-> FALSE]
         ELSE [value |-> I32_MIN + (a - (I32_MAX - b) - 1), ok |-> TRUE]
    ELSE [value |-> a + b, ok |-> TRUE]

\* PhotonHistogram::get_index on such a position
get_index_f64(position, build) ==
    LET x == add_i32(quotient_as_i32(position[1]), cell_number \div 2, build)
        y == add_i32(quotient_as_i32(position[2]), cell_number \div 2, build)
        z == add_i32(quotient_as_i32(position[3]), cell_number \div 2, build)
    IN IF ~(x.ok /\ y.ok /\ z.ok) THEN [index |-> None, ok |-> FALSE]
       ELSE IF (x.value < 0 \/ x.value >= cell_number)
               \/ (y.value < 0 \/ y.value >= cell_number)
               \/ (z.value < 0 \/ z.value >= cell_number)
       THEN [index |-> None, ok |-> TRUE]
       ELSE [index |-> Some(z.value * cell_number * cell_number
                            + y.value * cell_number + x.value),
             ok |-> TRUE]

\* PhotonHistogram::count on such a position
count_f64(position, build) ==
    LET r == get_index_f64(position, build)
    IN IF r.index # None THEN fetch_add(cells, unwrap(r.index), U32(1)) ELSE cells

IndexCoords == {Fin(0), Fin(-CellUnits), Fin(MaxCoord), Huge(1), Huge(-1), NaNCoord}

\* one call histogram.count(position) on the new histogram
IndexCall(position, build) ==
    /\ arg = None
    /\ cells' = count_f64(position, build)
    /\ aborted' = ~get_index_f64(position, build).ok
    /\ arg' = Some(position)
    /\ ret' = get_index_f64(position, build).index
    /\ UNCHANGED <<fileVars, runVars, cell_size, cell_number, world, step, workerVars,
                   pcH, pcP, pcA, abatch, photons, atoms, hist>>

NextIndex ==
    \E position \in IndexCoords \X IndexCoords \X IndexCoords, build \in Builds :
        IndexCall(position, build)

SpecIndex == InitCount /\ [][NextIndex]_vars

\* C19: count never fails, whatever the position and cell_number: the index
\* arithmetic does not overflow, the index returned is below cell_number^3,
\* and a position with a coordinate that is not a number, or whose quotient
\* is beyond the i32 range, is dropped without changing any cell.
C19_CountNeverFails ==
    arg # None =>
        /\ ~aborted
        /\ ret # None => unwrap(ret) \in 0..(cell_number * cell_number * cell_number - 1)
        /\ (\E k \in 1..3 : unwrap(arg)[k].kind # "fin") => (ret = None /\ cells = Zeros)

-----------------------------------------------------------------------------
(* The two output systems in the dispatch of a step (SpecStore) *)

\* C14: the h5 file is mutated by one system at a time: dataset "atoms" is
\* never written while append_photons is between the resize and the write of
\* a batch of photons, and each system mutates the file only after its own
\* parallel collection has completed.
C14_OneMutatorAtATime ==
    [][/\ atoms' # atoms => (pcA = "write" /\ ~(pcP = "write" /\ batch # <<>>))
       /\ photons' # photons => (pcP \in {"append", "write"} /\ todo = {})]_vars

====
